---- MODULE Spec2Model ----
(***************************************************************************)
(* Model of generate_newsletter.py: the text normaliser strip_html, the    *)
(* keyword classifier classify_subject, the feed aggregator fetch_articles *)
(* and the static renderer build_html, driven by main.                    *)
(*                                                                         *)
(* A Python str is modelled as a sequence of one-character strings; a     *)
(* code point outside ASCII is written "U+XXXX".                          *)
(***************************************************************************)
EXTENDS Integers, Sequences, FiniteSets, TLC

VARIABLES
  pc,          \* position of the running function
  srcIdx,      \* index of the current source in FEEDS          (line 115)
  urlIdx,      \* index of the current url of that source        (line 116)
  feed,        \* entries of the parsed feed still to be visited (line 123)
  classified,  \* subject -> list of items                       (line 113)
  warnings,    \* urls printed in a [WARN] line                  (line 120)
  issued,      \* urls passed to feedparser.parse, in call order (line 118)
  calls,       \* outcome of every completed feedparser.parse call
  html,        \* the parts list of build_html                   (line 282)
  text,        \* argument of a direct strip_html call           (line 92)
  out          \* value returned by that call                    (line 98)

vars == << pc, srcIdx, urlIdx, feed, classified, warnings, issued, calls,
           html, text, out >>

-----------------------------------------------------------------------------
(* Bounds of the model *)

\* longest argument of a direct strip_html call
MaxLen == 4

\* longest feed a feedparser.parse call returns
MaxFeedLen == 3

-----------------------------------------------------------------------------
(* Python str helpers *)

\* None, the missing value, as an argument of strip_html
NoneVal == << "None" >>

\* str.isspace for the characters of the model
IsSpace(c) == c \in {" ", "\n", "\t"}

Min(a, b) == IF a < b THEN a ELSE b

RECURSIVE LStrip(_)
LStrip(s) ==
  IF s = << >> THEN << >>
  ELSE IF IsSpace(Head(s)) THEN LStrip(Tail(s)) ELSE s

RECURSIVE RStrip(_)
RStrip(s) ==
  IF s = << >> THEN << >>
  ELSE IF IsSpace(s[Len(s)]) THEN RStrip(SubSeq(s, 1, Len(s) - 1)) ELSE s

\* str.strip()
Strip(s) == RStrip(LStrip(s))

\* str.lower() on one character
LowerChar(c) ==
  CASE c = "A" -> "a" [] c = "B" -> "b" [] c = "C" -> "c" [] c = "D" -> "d"
    [] c = "E" -> "e" [] c = "F" -> "f" [] c = "G" -> "g" [] c = "H" -> "h"
    [] c = "I" -> "i" [] c = "J" -> "j" [] c = "K" -> "k" [] c = "L" -> "l"
    [] c = "M" -> "m" [] c = "N" -> "n" [] c = "O" -> "o" [] c = "P" -> "p"
    [] c = "Q" -> "q" [] c = "R" -> "r" [] c = "S" -> "s" [] c = "T" -> "t"
    [] c = "U" -> "u" [] c = "V" -> "v" [] c = "W" -> "w" [] c = "X" -> "x"
    [] c = "Y" -> "y" [] c = "Z" -> "z" [] OTHER -> c

\* str.lower()
Lower(s) == [i \in 1..Len(s) |-> LowerChar(s[i])]

\* the Python test `kw in blob`
Contains(blob, kw) ==
  \E i \in 1..(Len(blob) - Len(kw) + 1) : SubSeq(blob, i, i + Len(kw) - 1) = kw

-----------------------------------------------------------------------------
(* html.unescape, for text without '#' (no numeric character reference)    *)

\* the named references of html.entities.html5 whose names are spelled with
\* the letters the model's texts put after an '&'
html5 ==
  (<< "l", "t" >> :> << "<" >>) @@ (<< "l", "t", ";" >> :> << "<" >>) @@
  (<< "g", "t" >> :> << ">" >>) @@ (<< "g", "t", ";" >> :> << ">" >>) @@
  (<< "a", "m", "p" >> :> << "&" >>) @@
  (<< "a", "m", "p", ";" >> :> << "&" >>) @@
  (<< "l", "l", ";" >> :> << "U+226A" >>)

\* the class [^\t\n\f <&#;] of the reference pattern
NameChar(c) == c \notin {"\t", "\n", "\f", " ", "<", "&", "#", ";"}

\* number of name characters from index i on, at most 32
RECURSIVE NameRun(_, _, _)
NameRun(s, i, n) ==
  IF n < 32 /\ i <= Len(s) /\ NameChar(s[i]) THEN NameRun(s, i + 1, n + 1)
  ELSE n

\* length of the group matched after the '&' at index i (0: no match)
CharrefLen(s, i) ==
  LET n == NameRun(s, i + 1, 0)
  IN IF n = 0 THEN 0
     ELSE IF i + n + 1 <= Len(s) /\ s[i + n + 1] = ";" THEN n + 1 ELSE n

\* the longest proper prefix of name, of two characters or more, in html5
RECURSIVE PrefixRef(_, _)
PrefixRef(name, x) ==
  IF x < 2 THEN << "&" >> \o name
  ELSE IF SubSeq(name, 1, x) \in DOMAIN html5
       THEN html5[SubSeq(name, 1, x)] \o SubSeq(name, x + 1, Len(name))
       ELSE PrefixRef(name, x - 1)

\* html._replace_charref for a named reference
replace_charref(name) ==
  IF name \in DOMAIN html5 THEN html5[name]
  ELSE PrefixRef(name, Len(name) - 1)

RECURSIVE UnescapeFrom(_, _)
UnescapeFrom(s, i) ==
  IF i > Len(s) THEN << >>
  ELSE LET n == IF s[i] = "&" THEN CharrefLen(s, i) ELSE 0
       IN IF n > 0
          THEN replace_charref(SubSeq(s, i + 1, i + n))
                 \o UnescapeFrom(s, i + n + 1)
          ELSE << s[i] >> \o UnescapeFrom(s, i + 1)

\* html.unescape
unescape(s) == UnescapeFrom(s, 1)

-----------------------------------------------------------------------------
(* strip_html *)

\* index of the first '>' at or after index i, 0 when there is none
RECURSIVE FirstGt(_, _)
FirstGt(s, i) ==
  IF i > Len(s) THEN 0
  ELSE IF s[i] = ">" THEN i ELSE FirstGt(s, i + 1)

RemoveTags_Keep(s, i) == SubSeq(s, i, Len(s))

\* re.sub(r"<[^>]+>", "", s), scanning from index i
RECURSIVE RemoveTags(_, _)
RemoveTags(s, i) ==
  IF i > Len(s) THEN << >>
  ELSE LET j == IF s[i] = "<" THEN FirstGt(s, i + 1) ELSE 0
       IN IF j >= i + 2
          THEN RemoveTags(s, j + 1)
          ELSE << s[i] >> \o RemoveTags(s, i + 1)

\* " ".join(s.split()): cur is the word being read, first is TRUE until a
\* word has been written
RECURSIVE JoinSplit(_, _, _)
JoinSplit(s, cur, first) ==
  LET flush == IF cur = << >> THEN << >>
               ELSE IF first THEN cur ELSE << " " >> \o cur
  IN IF s = << >> THEN flush
     ELSE IF IsSpace(Head(s))
          THEN flush \o JoinSplit(Tail(s), << >>, first /\ cur = << >>)
          ELSE JoinSplit(Tail(s), Append(cur, Head(s)), first)

\* the test `not text`
Falsy(s) == s = NoneVal \/ s = << >>

strip_html(s) ==
  IF Falsy(s) THEN << >>
  ELSE JoinSplit(RemoveTags(unescape(s), 1), << >>, TRUE)

-----------------------------------------------------------------------------
(* Subjects, keywords and feeds *)

Subjects ==
  { "Economy", "Economic Issues and Reforms", "Agriculture", "Geopolitics",
    "National Security", "Foreign Policy",
    "Constitutional Law and Judiciary", "Gender", "Social Issues" }

SUBJECT_ORDER ==
  << "Economy",
     "Economic Issues and Reforms",
     "Agriculture",
     "Geopolitics",
     "National Security",
     "Foreign Policy",
     "Constitutional Law and Judiciary",
     "Gender",
     "Social Issues" >>

SUBJECT_KEYWORDS ==
  [subject \in Subjects |->
    CASE subject = "Economy" ->
        << <<"e","c","o","n","o","m","y">>,
           <<"e","c","o","n","o","m","i","c"," ","g","r","o","w","t","h">>,
           <<"g","d","p">>,
           <<"i","n","f","l","a","t","i","o","n">>,
           <<"i","n","t","e","r","e","s","t"," ","r","a","t","e">>,
           <<"s","b","p">>,
           <<"s","t","a","t","e"," ","b","a","n","k">>,
           <<"p","k","r","u">>,
           <<"s","t","o","c","k"," ","m","a","r","k","e","t">>,
           <<"p","s","x">>,
           <<"f","i","s","c","a","l"," ","d","e","f","i","c","i","t">>,
           <<"c","u","r","r","e","n","t"," ","a","c","c","o","u","n","t">>,
           <<"t","r","a","d","e"," ","d","e","f","i","c","i","t">>,
           <<"r","e","m","i","t","t","a","n","c","e","s">> >>
      [] subject = "Economic Issues and Reforms" ->
        << <<"i","m","f">>,
           <<"r","e","f","o","r","m","s">>,
           <<"p","r","i","v","a","t","i","s","a","t","i","o","n">>,
           <<"p","r","i","v","a","t","i","z","a","t","i","o","n">>,
           <<"t","a","x"," ","r","e","f","o","r","m">>,
           <<"f","b","r">>,
           <<"r","e","v","e","n","u","e">>,
           <<"s","u","b","s","i","d","y">>,
           <<"c","i","r","c","u","l","a","r"," ","d","e","b","t">>,
           <<"e","n","e","r","g","y"," ","t","a","r","i","f","f">>,
           <<"s","t","r","u","c","t","u","r","a","l"," ","r","e","f","o","r","m">>,
           <<"p","r","i","v","a","t","i","s","i","n","g">>,
           <<"a","u","s","t","e","r","i","t","y">> >>
      [] subject = "Agriculture" ->
        << <<"a","g","r","i","c","u","l","t","u","r","e">>,
           <<"c","r","o","p">>,
           <<"w","h","e","a","t">>,
           <<"c","o","t","t","o","n">>,
           <<"r","i","c","e">>,
           <<"s","u","g","a","r","c","a","n","e">>,
           <<"f","e","r","t","i","l","i","s","e","r">>,
           <<"f","e","r","t","i","l","i","z","e","r">>,
           <<"f","a","r","m","e","r">>,
           <<"l","i","v","e","s","t","o","c","k">>,
           <<"w","a","t","e","r","l","o","g","g","i","n","g">>,
           <<"c","a","n","a","l">>,
           <<"i","r","r","i","g","a","t","i","o","n">>,
           <<"a","g","r","i">> >>
      [] subject = "Geopolitics" ->
        << <<"g","e","o","p","o","l","i","t","i","c","s">>,
           <<"g","r","e","a","t"," ","p","o","w","e","r">>,
           <<"c","h","i","n","a">>,
           <<"i","n","d","i","a">>,
           <<"u","s">>,
           <<"r","u","s","s","i","a">>,
           <<"m","i","d","d","l","e"," ","e","a","s","t">>,
           <<"g","u","l","f">>,
           <<"s","a","u","d","i">>,
           <<"i","r","a","n">>,
           <<"t","u","r","k","e","y">>,
           <<"t","a","l","i","b","a","n">>,
           <<"m","u","l","t","i","p","o","l","a","r">>,
           <<"c","o","l","d"," ","w","a","r">>,
           <<"b","l","o","c">> >>
      [] subject = "National Security" ->
        << <<"t","e","r","r","o","r">>,
           <<"t","e","r","r","o","r","i","s","m">>,
           <<"m","i","l","i","t","a","n","t">>,
           <<"c","t","d">>,
           <<"s","e","c","u","r","i","t","y"," ","f","o","r","c","e","s">>,
           <<"a","r","m","y">>,
           <<"m","i","l","i","t","a","r","y">>,
           <<"n","a","c","t","a">>,
           <<"i","n","t","e","r","n","a","l"," ","s","e","c","u","r","i","t","y">>,
           <<"i","n","s","u","r","g","e","n","c","y">>,
           <<"b","a","l","o","c","h","i","s","t","a","n"," ","u","n","r","e","s","t">>,
           <<"t","a","k","s","i","m">>,
           <<"c","o","u","n","t","e","r","t","e","r","r","o","r","i","s","m">> >>
      [] subject = "Foreign Policy" ->
        << <<"f","o","r","e","i","g","n"," ","p","o","l","i","c","y">>,
           <<"d","i","p","l","o","m","a","c","y">>,
           <<"b","i","l","a","t","e","r","a","l">>,
           <<"s","u","m","m","i","t">>,
           <<"o","i","c">>,
           <<"u","n","s","c">>,
           <<"u","n","i","t","e","d"," ","n","a","t","i","o","n","s">>,
           <<"s","t","r","a","t","e","g","i","c"," ","p","a","r","t","n","e","r","s","h","i","p">>,
           <<"b","o","r","d","e","r">>,
           <<"k","a","s","h","m","i","r">>,
           <<"f","m">>,
           <<"f","o","r","e","i","g","n"," ","o","f","f","i","c","e">>,
           <<"f","o"," ","s","p","o","k","e","s","p","e","r","s","o","n">> >>
      [] subject = "Constitutional Law and Judiciary" ->
        << <<"s","u","p","r","e","m","e"," ","c","o","u","r","t">>,
           <<"s","c">>,
           <<"h","i","g","h"," ","c","o","u","r","t">>,
           <<"l","h","r"," ","h","c">>,
           <<"s","h","c">>,
           <<"i","h","c">>,
           <<"c","o","n","s","t","i","t","u","t","i","o","n">>,
           <<"c","o","n","s","t","i","t","u","t","i","o","n","a","l">>,
           <<"a","r","t","i","c","l","e">>,
           <<"b","a","s","i","c"," ","s","t","r","u","c","t","u","r","e">>,
           <<"j","u","d","i","c","i","a","r","y">>,
           <<"b","e","n","c","h">>,
           <<"l","o","c","u","s"," ","s","t","a","n","d","i">>,
           <<"h","a","b","e","a","s"," ","c","o","r","p","u","s">>,
           <<"r","e","f","e","r","e","n","c","e">> >>
      [] subject = "Gender" ->
        << <<"w","o","m","e","n">>,
           <<"g","e","n","d","e","r">>,
           <<"h","a","r","a","s","s","m","e","n","t">>,
           <<"v","i","o","l","e","n","c","e"," ","a","g","a","i","n","s","t"," ","w","o","m","e","n">>,
           <<"d","o","m","e","s","t","i","c"," ","v","i","o","l","e","n","c","e">>,
           <<"h","o","n","o","u","r"," ","k","i","l","l","i","n","g">>,
           <<"h","o","n","o","r"," ","k","i","l","l","i","n","g">>,
           <<"g","i","r","l","s","U+2019"," ","e","d","u","c","a","t","i","o","n">>,
           <<"w","o","m","e","n","U+2019","s"," ","r","i","g","h","t","s">>,
           <<"g","e","n","d","e","r"," ","p","a","r","i","t","y">>,
           <<"s","e","x","u","a","l"," ","h","a","r","a","s","s","m","e","n","t">> >>
      [] subject = "Social Issues" ->
        << <<"p","o","v","e","r","t","y">>,
           <<"i","n","e","q","u","a","l","i","t","y">>,
           <<"h","e","a","l","t","h","c","a","r","e">>,
           <<"e","d","u","c","a","t","i","o","n">>,
           <<"l","i","t","e","r","a","c","y">>,
           <<"h","o","u","s","i","n","g">>,
           <<"s","l","u","m","s">>,
           <<"i","n","f","o","r","m","a","l"," ","s","e","t","t","l","e","m","e","n","t","s">>,
           <<"m","a","l","n","u","t","r","i","t","i","o","n">>,
           <<"s","t","u","n","t","i","n","g">>,
           <<"p","u","b","l","i","c"," ","h","e","a","l","t","h">>,
           <<"e","p","i","d","e","m","i","c">>,
           <<"s","o","c","i","a","l"," ","s","a","f","e","t","y"," ","n","e","t">>,
           <<"b","i","s","p">>,
           <<"e","h","s","a","a","s">>,
           <<"y","o","u","t","h">>,
           <<"l","a","b","o","u","r">>,
           <<"l","a","b","o","r"," ","r","i","g","h","t","s">> >> ]

FEEDS ==
  << [ source |-> "Dawn",
       urls |-> << "https://www.dawn.com/feeds/home" >> ],
     [ source |-> "The Express Tribune",
       urls |-> << "https://tribune.com.pk/feed/latest",
                   "https://tribune.com.pk/feed/opinion" >> ] >>

MAX_PER_SUBJECT == 6

\* the value None of classify_subject
None == "None"

\* position of a subject in SUBJECT_ORDER
SubjectIndex(subject) ==
  CHOOSE i \in 1..Len(SUBJECT_ORDER) : SUBJECT_ORDER[i] = subject

-----------------------------------------------------------------------------
(* classify_subject *)

\* the inner loop: some keyword of the subject occurs in the blob
AnyKeyword(blob, subject) ==
  \E k \in 1..Len(SUBJECT_KEYWORDS[subject]) :
    Contains(blob, Lower(SUBJECT_KEYWORDS[subject][k]))

\* the outer loop, from position i of SUBJECT_ORDER on
RECURSIVE ScanSubjects(_, _)
ScanSubjects(blob, i) ==
  IF i > Len(SUBJECT_ORDER) THEN None
  ELSE IF AnyKeyword(blob, SUBJECT_ORDER[i]) THEN SUBJECT_ORDER[i]
       ELSE ScanSubjects(blob, i + 1)

\* the outer loop run backwards, from position i down
RECURSIVE ScanSubjectsDown(_, _)
ScanSubjectsDown(blob, i) ==
  IF i < 1 THEN None
  ELSE IF AnyKeyword(blob, SUBJECT_ORDER[i]) THEN SUBJECT_ORDER[i]
       ELSE ScanSubjectsDown(blob, i - 1)

\* variant: the last matching subject wins
classify_subject_Last(title, summary) ==
  ScanSubjectsDown(Lower(title \o << " " >> \o summary), Len(SUBJECT_ORDER))

\* variant: an unmatched article falls into the last subject
classify_subject_Default(title, summary) ==
  LET subject == ScanSubjects(Lower(title \o << " " >> \o summary), 1)
  IN IF subject = None THEN SUBJECT_ORDER[Len(SUBJECT_ORDER)] ELSE subject

classify_subject(title, summary) ==
  ScanSubjects(Lower(title \o << " " >> \o summary), 1)

-----------------------------------------------------------------------------
(* The feeds feedparser.parse can return *)

EntryCatalog ==
  << [ title |-> << "S", "B", "P" >>, summary |-> << "<", "p", ">", "r", "a", "t", "e", "<", "/", "p", ">" >>, link |-> << "a", "1" >> ],
     [ title |-> << " ", "P", "S", "X", " " >>, summary |-> << "&", "l", "t", ";", "b", "&", "g", "t", ";", "u", "p" >>, link |-> << " ", "a", "2", " " >> ],
     [ title |-> << "S", "t", "a", "t", "e" >>, summary |-> << "B", "a", "n", "k" >>, link |-> << "a", "3" >> ],
     [ title |-> << "U", "S", " ", "I", "M", "F" >>, link |-> << "a", "4" >> ],
     [ title |-> << " ", " " >>, summary |-> << "g", "d", "p" >>, link |-> << "a", "5" >> ],
     [ summary |-> << "i", "m", "f" >>, link |-> << "a", "6" >> ],
     [ title |-> << "C", "r", "i", "c", "k", "e", "t" >>, summary |-> << "<", "i", ">", "w", "i", "n", "<", "/", "i", ">" >>, link |-> << "a", "7" >> ],
     [ title |-> << "P", "r", "i", "c", "e" >> ] >>

\* the n entries of the catalogue from position i on, cyclically
Window(i, n) ==
  [j \in 1..n |-> EntryCatalog[((i + j - 2) % Len(EntryCatalog)) + 1]]

Feeds == { Window(i, n) : i \in 1..Len(EntryCatalog), n \in 0..MaxFeedLen }

\* datetime.now().strftime("%d %B %Y")
Dates == { "29 October 2026", "30 October 2026" }

\* entry.get(key, "")
Get(entry, key) == IF key \in DOMAIN entry THEN entry[key] ELSE << >>

-----------------------------------------------------------------------------
(* fetch_articles *)

\* the url the loops are at
CurrentUrl == FEEDS[srcIdx].urls[urlIdx]

\* the next iteration of the loops over FEEDS.items() and urls
NextPos(s, u) ==
  IF u < Len(FEEDS[s].urls) THEN [ src |-> s, url |-> u + 1 ]
  ELSE [ src |-> s + 1, url |-> 1 ]

\* variant: the failed url is parsed again
RetryPos(s, u) == [ src |-> s, url |-> u ]

\* variant: a failure leaves the loops
AbortPos(s, u) == [ src |-> Len(FEEDS) + 1, url |-> 1 ]

\* `continue` in the except clause: the iteration after a failed parse
AfterError(s, u) == NextPos(s, u)

\* variant: no title is blank
NeverBlank(title) == FALSE

\* the test `not title`
TitleIsBlank(title) == title = << >>

\* the test `not subject`
NoSubject(subject) == subject = None

\* the item built from an entry
Item(source, entry) ==
  [ source  |-> source,
    title   |-> Strip(Get(entry, "title")),
    summary |-> strip_html(Get(entry, "summary")),
    link    |-> Strip(Get(entry, "link")) ]

\* classified[subject].append(item)
AppendItem(bucket, item) == Append(bucket, item)

\* variant: no truncation
NoTruncate(bucket) == bucket

\* variant: the latest items are kept
LastItems(bucket) ==
  SubSeq(bucket, Len(bucket) - Min(Len(bucket), MAX_PER_SUBJECT) + 1,
         Len(bucket))

\* bucket[:MAX_PER_SUBJECT]
Truncated(bucket) == SubSeq(bucket, 1, Min(Len(bucket), MAX_PER_SUBJECT))

\* feedparser.parse(url) is called
Parse ==
  /\ pc = "parse"
  /\ srcIdx <= Len(FEEDS)
  /\ issued' = Append(issued, CurrentUrl)
  /\ pc' = "parsing"
  /\ UNCHANGED << srcIdx, urlIdx, feed, classified, warnings, calls, html,
                  text, out >>

\* feedparser.parse(url) returns a feed
ParseReturn ==
  /\ pc = "parsing"
  /\ \E f \in Feeds :
       /\ feed' = f
       /\ calls' = Append(calls, [ source |-> FEEDS[srcIdx].source,
                                   url |-> CurrentUrl, ok |-> TRUE,
                                   entries |-> f ])
  /\ pc' = "entries"
  /\ UNCHANGED << srcIdx, urlIdx, classified, warnings, issued, html,
                  text, out >>

\* feedparser.parse(url) raises: warn and continue with the next url
ParseRaise ==
  /\ pc = "parsing"
  /\ warnings' = Append(warnings, CurrentUrl)
  /\ calls' = Append(calls, [ source |-> FEEDS[srcIdx].source,
                              url |-> CurrentUrl, ok |-> FALSE,
                              entries |-> << >> ])
  /\ srcIdx' = AfterError(srcIdx, urlIdx).src
  /\ urlIdx' = AfterError(srcIdx, urlIdx).url
  /\ pc' = "parse"
  /\ UNCHANGED << feed, classified, issued, html, text, out >>

\* an entry whose title is blank is skipped
SkipBlankTitle ==
  /\ pc = "entries"
  /\ feed # << >>
  /\ TitleIsBlank(Strip(Get(Head(feed), "title")))
  /\ feed' = Tail(feed)
  /\ UNCHANGED << pc, srcIdx, urlIdx, classified, warnings, issued, calls,
                  html, text, out >>

\* an entry no subject matches is skipped
SkipNoSubject ==
  /\ pc = "entries"
  /\ feed # << >>
  /\ ~TitleIsBlank(Strip(Get(Head(feed), "title")))
  /\ LET item == Item(FEEDS[srcIdx].source, Head(feed))
     IN NoSubject(classify_subject(item.title, item.summary))
  /\ feed' = Tail(feed)
  /\ UNCHANGED << pc, srcIdx, urlIdx, classified, warnings, issued, calls,
                  html, text, out >>

\* an entry with a subject is appended to the bucket of that subject
AppendEntry ==
  /\ pc = "entries"
  /\ feed # << >>
  /\ ~TitleIsBlank(Strip(Get(Head(feed), "title")))
  /\ LET item == Item(FEEDS[srcIdx].source, Head(feed))
         subject == classify_subject(item.title, item.summary)
     IN /\ ~NoSubject(subject)
        /\ classified' = [classified EXCEPT
                            ![subject] = AppendItem(@, item)]
  /\ feed' = Tail(feed)
  /\ UNCHANGED << pc, srcIdx, urlIdx, warnings, issued, calls, html,
                  text, out >>

\* the entries of the feed are exhausted: next url
EndOfEntries ==
  /\ pc = "entries"
  /\ feed = << >>
  /\ srcIdx' = NextPos(srcIdx, urlIdx).src
  /\ urlIdx' = NextPos(srcIdx, urlIdx).url
  /\ pc' = "parse"
  /\ UNCHANGED << feed, classified, warnings, issued, calls, html,
                  text, out >>

\* the loops are exhausted: truncate every bucket and return
Truncate ==
  /\ pc = "parse"
  /\ srcIdx > Len(FEEDS)
  /\ classified' = [subject \in Subjects |-> Truncated(classified[subject])]
  /\ pc' = "returned"
  /\ UNCHANGED << srcIdx, urlIdx, feed, warnings, issued, calls, html,
                  text, out >>

-----------------------------------------------------------------------------
(* build_html *)

\* variant: a section for every subject
AlwaysSection(items) == FALSE

\* the test `not items`
SkipSection(items) == items = << >>

\* the parts of one article card
Card(item) ==
  << [ tag |-> "article", text |-> << >> ],
     [ tag |-> "h3", text |-> item.title ],
     [ tag |-> "meta", text |-> item.source ] >>
  \o (IF item.summary # << >>
      THEN << [ tag |-> "summary", text |-> item.summary ] >> ELSE << >>)
  \o << [ tag |-> "a", text |-> item.link ],
        [ tag |-> "/article", text |-> << >> ] >>

\* variant: the cards of a section in reverse order
RECURSIVE CardsReversed(_)
CardsReversed(items) ==
  IF items = << >> THEN << >>
  ELSE CardsReversed(Tail(items)) \o Card(Head(items))

\* the loop over the items of a subject
RECURSIVE Cards(_)
Cards(items) ==
  IF items = << >> THEN << >>
  ELSE Card(Head(items)) \o Cards(Tail(items))

\* the parts of one subject
Section(subject, items) ==
  IF SkipSection(items) THEN << >>
  ELSE << [ tag |-> "section", text |-> << >> ],
          [ tag |-> "h2", text |-> subject ],
          [ tag |-> "subject-description", text |-> << >> ] >>
       \o Cards(items)
       \o << [ tag |-> "/section", text |-> << >> ] >>

\* the loop over SUBJECT_ORDER, from position i on
RECURSIVE Sections(_, _)
Sections(c, i) ==
  IF i > Len(SUBJECT_ORDER) THEN << >>
  ELSE Section(SUBJECT_ORDER[i], c[SUBJECT_ORDER[i]]) \o Sections(c, i + 1)

\* the list parts, which "".join(parts) concatenates in this order
build_html(c, date_str) ==
  << [ tag |-> "head", text |-> << >> ],
     [ tag |-> "date", text |-> date_str ] >>
  \o Sections(c, 1)
  \o << [ tag |-> "foot", text |-> << >> ] >>

\* main: html = build_html(classified)
BuildHtml ==
  /\ pc = "returned"
  /\ \E date_str \in Dates : html' = build_html(classified, date_str)
  /\ pc' = "done"
  /\ UNCHANGED << srcIdx, urlIdx, feed, classified, warnings, issued, calls,
                  text, out >>

-----------------------------------------------------------------------------
(* Specifications *)

EmptyBuckets == [subject \in Subjects |-> << >>]

\* main calls fetch_articles
Init ==
  /\ pc = "parse"
  /\ srcIdx = 1
  /\ urlIdx = 1
  /\ feed = << >>
  /\ classified = EmptyBuckets
  /\ warnings = << >>
  /\ issued = << >>
  /\ calls = << >>
  /\ html = << >>
  /\ text = << >>
  /\ out = << >>

Next ==
  \/ Parse
  \/ ParseReturn
  \/ ParseRaise
  \/ SkipBlankTitle
  \/ SkipNoSubject
  \/ AppendEntry
  \/ EndOfEntries
  \/ Truncate
  \/ BuildHtml

Spec == Init /\ [][Next]_vars

\* the characters of the arguments of a direct strip_html call
Alphabet == { "<", ">", "&", ";", "l", "t", " ", "\n" }

Texts == UNION { [1..n -> Alphabet] : n \in 0..MaxLen } \cup { NoneVal }

\* a caller is about to call strip_html(text)
InitStrip ==
  /\ pc = "strip_html"
  /\ text \in Texts
  /\ out = << >>
  /\ srcIdx = 1
  /\ urlIdx = 1
  /\ feed = << >>
  /\ classified = EmptyBuckets
  /\ warnings = << >>
  /\ issued = << >>
  /\ calls = << >>
  /\ html = << >>

\* strip_html(text) returns
StripHtml ==
  /\ pc = "strip_html"
  /\ out' = strip_html(text)
  /\ pc' = "strip_done"
  /\ UNCHANGED << srcIdx, urlIdx, feed, classified, warnings, issued, calls,
                  html, text >>

NextStrip == StripHtml

SpecStrip == InitStrip /\ [][NextStrip]_vars

-----------------------------------------------------------------------------
(* Properties: vocabulary *)

Range(s) == { s[i] : i \in 1..Len(s) }

\* the urls of FEEDS in configured order
ConfiguredUrls == FEEDS[1].urls \o FEEDS[2].urls

\* the lowercased title-plus-summary text of an item
Blob(item) == Lower(item.title \o << " " >> \o item.summary)

\* some keyword of the subject is a substring of the blob
MatchesBlob(blob, subject) ==
  \E kw \in Range(SUBJECT_KEYWORDS[subject]) : Contains(blob, kw)

\* the items the entries of the catalogue can become
PossibleItems ==
  { Item(FEEDS[s].source, e) : s \in 1..Len(FEEDS), e \in Range(EntryCatalog) }

\* for every possible item, the subjects with a keyword in its blob
\* (@@ makes the function a table, computed once)
MatchedSubjects ==
  [item \in PossibleItems |->
     LET blob == Blob(item)
     IN { subject \in Subjects : MatchesBlob(blob, subject) }] @@ << >>

\* some keyword of the subject is a substring of the item's blob
Matches(item, subject) == subject \in MatchedSubjects[item]

\* the subject is the earliest one in SUBJECT_ORDER the item matches
FirstMatching(item, subject) ==
  /\ Matches(item, subject)
  /\ \A earlier \in MatchedSubjects[item] :
       SubjectIndex(earlier) >= SubjectIndex(subject)

\* the title of the entry is absent, empty or whitespace only
BlankTitle(entry) == \A i \in 1..Len(Get(entry, "title")) :
                        IsSpace(Get(entry, "title")[i])

\* the entries the completed calls returned, as items, in encounter order
RECURSIVE Encountered(_)
Encountered(cs) ==
  IF cs = << >> THEN << >>
  ELSE (IF Head(cs).ok
        THEN [j \in 1..Len(Head(cs).entries) |->
                [ blank |-> BlankTitle(Head(cs).entries[j]),
                  item  |-> Item(Head(cs).source, Head(cs).entries[j]) ]]
        ELSE << >>)
       \o Encountered(Tail(cs))

\* the items of the subject among the encountered entries, in that order
Accepted(cs, subject) ==
  LET Keep(e) == ~e.blank /\ FirstMatching(e.item, subject)
      kept == SelectSeq(Encountered(cs), Keep)
  IN [j \in 1..Len(kept) |-> kept[j].item]

\* the calls with every failed call replaced by one returning an empty feed
AsIfEmpty(cs) ==
  [j \in 1..Len(cs) |->
     IF cs[j].ok THEN cs[j]
     ELSE [cs[j] EXCEPT !.ok = TRUE, !.entries = << >>]]

\* the urls of the failed calls
FailedUrls(cs) ==
  LET Failed(c) == ~c.ok
      failed == SelectSeq(cs, Failed)
  IN [j \in 1..Len(failed) |-> failed[j].url]

\* fetch_articles has returned
Returned == pc = "returned"

\* the indices of the parts of html with the given tag, in increasing order
RECURSIVE PositionsFrom(_, _)
PositionsFrom(tag, i) ==
  IF i > Len(html) THEN << >>
  ELSE (IF html[i].tag = tag THEN << i >> ELSE << >>)
       \o PositionsFrom(tag, i + 1)

Positions(tag) == PositionsFrom(tag, 1)

\* the texts of the parts with the given tag between indices a and b of html
TextsBetween(tag, a, b) ==
  LET HasTag(p) == p.tag = tag
      sel == SelectSeq(SubSeq(html, a, b), HasTag)
  IN [j \in 1..Len(sel) |-> sel[j].text]

\* the subjects with a non-empty bucket, in SUBJECT_ORDER
NonEmptySubjects ==
  LET NonEmpty(subject) == classified[subject] # << >>
  IN SelectSeq(SUBJECT_ORDER, NonEmpty)

-----------------------------------------------------------------------------
(* The claims *)

\* C1: every article in a bucket is in exactly one bucket, the bucket of the
\* first subject of SUBJECT_ORDER with a keyword that is a substring of the
\* lowercased title-plus-summary blob; an earlier subject beats a later one.
FirstMatchWins ==
  \A subject \in Subjects : \A i \in 1..Len(classified[subject]) :
    /\ FirstMatching(classified[subject][i], subject)
    /\ \A other \in Subjects \ {subject} :
         classified[subject][i] \notin Range(classified[other])

\* an article matching an earlier and a later subject has been bucketed
FirstMatchWinsWitness ==
  /\ Returned
  /\ \E item \in Range(classified["Economic Issues and Reforms"]) :
       Matches(item, "Geopolitics")

\* C2: every bucket fetch_articles returns holds at most MAX_PER_SUBJECT
\* articles, whatever the feeds return and whichever urls fail.
BucketsCapped ==
  Returned => \A subject \in Subjects :
                Len(classified[subject]) <= MAX_PER_SUBJECT

\* more articles of one subject were accepted than the cap allows
BucketsCappedWitness ==
  /\ Returned
  /\ Len(Accepted(calls, "Economy")) > MAX_PER_SUBJECT
  /\ Len(classified["Economy"]) = MAX_PER_SUBJECT

\* whitespace is collapsed to single spaces, none leading nor trailing
WhitespaceNormal(s) ==
  /\ \A i \in 1..Len(s) : IsSpace(s[i]) => s[i] = " "
  /\ \A i \in 1..(Len(s) - 1) : ~(s[i] = " " /\ s[i + 1] = " ")
  /\ s # << >> => s[1] # " " /\ s[Len(s)] # " "

\* s contains a tag: '<', one or more characters other than '>', then '>'
HasTag(s) ==
  \E i \in 1..Len(s) : \E j \in (i + 2)..Len(s) :
    /\ s[i] = "<"
    /\ s[j] = ">"
    /\ \A k \in (i + 1)..(j - 1) : s[k] # ">"

\* s contains an entity sequence: unescaping changes it
HasEntity(s) == unescape(s) # s

\* C3 as stated: the output of strip_html contains no '<' or '>', no entity
\* sequence, no doubled, leading or trailing whitespace; empty or missing
\* input yields the empty string.
StripHtmlNoAngleNoEntity ==
  pc = "strip_done" =>
    /\ "<" \notin Range(out)
    /\ ">" \notin Range(out)
    /\ ~HasEntity(out)
    /\ WhitespaceNormal(out)
    /\ (Falsy(text) => out = << >>)

\* C3 amended: the output of strip_html contains no complete tag (a '<', one
\* or more characters other than '>', then a '>'), has no doubled, leading
\* or trailing whitespace; empty or missing input yields the empty string.
StripHtmlNoTag ==
  pc = "strip_done" =>
    /\ ~HasTag(out)
    /\ WhitespaceNormal(out)
    /\ (Falsy(text) => out = << >>)

\* a tag was removed and an angle bracket is left in the output
StripHtmlNoTagWitness ==
  /\ pc = "strip_done"
  /\ HasTag(unescape(text))
  /\ "<" \in Range(out)

\* C4: a failed feedparser.parse call is warned about and contributes no
\* entry; every later url is still processed and the buckets are those of a
\* run in which the failing url returned an empty feed.
FailureIsNotFatal ==
  Returned =>
    /\ issued = ConfiguredUrls
    /\ Len(calls) = Len(ConfiguredUrls)
    /\ warnings = FailedUrls(calls)
    /\ \A subject \in Subjects :
         LET all == Accepted(AsIfEmpty(calls), subject)
         IN classified[subject] =
              SubSeq(all, 1, Min(Len(all), MAX_PER_SUBJECT))

\* a url failed and a later url still contributed an article
FailureIsNotFatalWitness ==
  /\ Returned
  /\ ~calls[2].ok
  /\ calls[3].ok
  /\ \E subject \in Subjects :
       \E item \in Range(classified[subject]) :
         item \in Range(Accepted(SubSeq(calls, 3, 3), subject))

\* C5: every bucket is the prefix of length min(n, MAX_PER_SUBJECT) of the
\* n accepted articles of its subject in encounter order.
BucketIsEarliestPrefix ==
  Returned => \A subject \in Subjects :
    LET all == Accepted(calls, subject)
    IN classified[subject] =
         SubSeq(all, 1, Min(Len(all), MAX_PER_SUBJECT))

\* a bucket was truncated and the dropped articles differ from the kept ones
BucketIsEarliestPrefixWitness ==
  /\ Returned
  /\ \E subject \in Subjects :
       LET all == Accepted(calls, subject)
       IN /\ Len(all) > MAX_PER_SUBJECT
          /\ all[Len(all)] # all[1]
          /\ all[1] # all[2]

\* C6: no article whose title is blank after trimming is in a bucket.
NoBlankTitleInBucket ==
  \A subject \in Subjects : \A i \in 1..Len(classified[subject]) :
    Strip(classified[subject][i].title) # << >>

\* an entry with a blank title and a summary that matches a keyword was read
NoBlankTitleInBucketWitness ==
  /\ Returned
  /\ \E e \in Range(Encountered(calls)) :
       e.blank /\ \E subject \in Subjects : Matches(e.item, subject)

\* the next entry of the feed has a title and matches no keyword
UnmatchedNext ==
  /\ pc = "entries"
  /\ feed # << >>
  /\ ~BlankTitle(Head(feed))
  /\ MatchedSubjects[Item(FEEDS[srcIdx].source, Head(feed))] = {}

\* C7: no article matching zero keywords is in a bucket: the entry is
\* dropped, no bucket changes and the loop goes on with the next entry.
UnmatchedIsDropped ==
  /\ [](\A subject \in Subjects : \A i \in 1..Len(classified[subject]) :
          \E s \in Subjects : Matches(classified[subject][i], s))
  /\ [][UnmatchedNext =>
          /\ classified' = classified
          /\ feed' = Tail(feed)
          /\ pc' = "entries"]_vars

\* an unmatched entry was read and a later entry was bucketed
UnmatchedIsDroppedWitness ==
  /\ Returned
  /\ \E i \in 1..Len(Encountered(calls)) :
       /\ ~Encountered(calls)[i].blank
       /\ \A s \in Subjects : ~Matches(Encountered(calls)[i].item, s)
       /\ \E j \in (i + 1)..Len(Encountered(calls)) :
            \E s \in Subjects :
              Encountered(calls)[j].item \in Range(classified[s])

\* every call of the run failed
AllFailed ==
  /\ Len(calls) = Len(ConfiguredUrls)
  /\ \A i \in 1..Len(calls) : ~calls[i].ok

\* C8: when every url fails, every subject is mapped to an empty sequence
\* and the document has no subject section and no article card.
AllFailedEmptyDocument ==
  /\ (Returned /\ AllFailed) => classified = EmptyBuckets
  /\ (pc = "done" /\ AllFailed) =>
       /\ html # << >>
       /\ \A i \in 1..Len(html) :
            html[i].tag \notin {"section", "h2", "article", "h3"}

\* the document of a run in which every url failed
AllFailedEmptyDocumentWitness ==
  /\ pc = "done"
  /\ AllFailed
  /\ Len(warnings) = Len(ConfiguredUrls)

\* C9: the document has one section per subject with a non-empty bucket, in
\* SUBJECT_ORDER, none for an empty bucket, and in each section one card per
\* article of the bucket, in bucket order.
OneSectionPerNonEmptySubject ==
  pc = "done" =>
    LET open  == Positions("section")
        close == Positions("/section")
        n     == Len(NonEmptySubjects)
    IN /\ Len(open) = n
       /\ Len(close) = n
       /\ TextsBetween("h2", 1, Len(html)) = NonEmptySubjects
       /\ \A k \in 1..n :
            LET items == classified[NonEmptySubjects[k]]
            IN /\ open[k] < close[k]
               /\ k < n => close[k] < open[k + 1]
               /\ html[open[k] + 1] =
                    [ tag |-> "h2", text |-> NonEmptySubjects[k] ]
               /\ Len(TextsBetween("article", open[k], close[k]))
                    = Len(items)
               /\ Len(TextsBetween("/article", open[k], close[k]))
                    = Len(items)
               /\ TextsBetween("h3", open[k], close[k])
                    = [j \in 1..Len(items) |-> items[j].title]
               /\ TextsBetween("a", open[k], close[k])
                    = [j \in 1..Len(items) |-> items[j].link]
       /\ \A i \in Range(Positions("article")) :
            \E k \in 1..n : open[k] < i /\ i < close[k]

\* a document with several sections, an omitted subject and a section of
\* several different cards
OneSectionPerNonEmptySubjectWitness ==
  /\ pc = "done"
  /\ Len(NonEmptySubjects) >= 2
  /\ \E subject \in Subjects :
       /\ Len(classified[subject]) >= 2
       /\ classified[subject][1].title # classified[subject][2].title

\* C10: the parse calls are issued one at a time in configured url order,
\* each completed before the next is issued, no url is parsed twice, and a
\* run parses exactly the configured urls.
ParseCallsInConfiguredOrder ==
  /\ Len(issued) <= Len(ConfiguredUrls)
  /\ issued = SubSeq(ConfiguredUrls, 1, Len(issued))
  /\ Len(calls) = IF pc = "parsing" THEN Len(issued) - 1 ELSE Len(issued)
  /\ \A i \in 1..Len(calls) : calls[i].url = issued[i]
  /\ Returned => issued = ConfiguredUrls

\* a run has returned although a parse call failed
ParseCallsInConfiguredOrderWitness ==
  /\ Returned
  /\ \E i \in 1..Len(calls) : ~calls[i].ok
  /\ \E i \in 1..Len(calls) : calls[i].ok

====
